---- MODULE Spec2Model ----
(***************************************************************************)
(* A model of bot.py, the tickets.londontheatre.co.uk scraper: the         *)
(* `search` subcommand (argument interpretation, show catalogue lookup,    *)
(* the per-date fetch and parse loop of Bot.tickets, the CSV export) and   *)
(* the pure helpers it is built from (daterange, the show id pattern, the  *)
(* page parser).                                                           *)
(*                                                                         *)
(* Text is a sequence of code points, so that formatting, parsing,         *)
(* matching and sorting are computed character by character.  A calendar   *)
(* date is its proleptic Gregorian ordinal (datetime.date.toordinal).      *)
(***************************************************************************)
EXTENDS Integers, Sequences, FiniteSets, TLC

(***************************************************************************)
(* Text                                                                    *)
(***************************************************************************)

\* Python's None where a text value is expected: a one-element sequence
\* holding no code point, so it differs from every text.
PyNone == << -1 >>

\* Falsy values of the truth tests `x if x else y`: None and the empty text.
Falsy(x) == x = PyNone \/ x = << >>

IsAsciiDigit(c) == c \in 48..57

\* The decimal digits of n, zero padded to width w (format "%0wd").
RECURSIVE ZeroPad(_, _)
ZeroPad(n, w) == IF w = 0 THEN << >> ELSE Append(ZeroPad(n \div 10, w - 1), 48 + (n % 10))

\* int() of a text of ASCII digits.
RECURSIVE DigitsValue(_)
DigitsValue(s) ==
    IF s = << >> THEN 0
    ELSE 10 * DigitsValue(SubSeq(s, 1, Len(s) - 1)) + (s[Len(s)] - 48)

\* Concatenation of a sequence of texts.
RECURSIVE Concat(_)
Concat(ss) == IF ss = << >> THEN << >> ELSE Head(ss) \o Concat(Tail(ss))

\* Lexicographic order on texts by code point (str.__lt__).
RECURSIVE TextLess(_, _)
TextLess(s, t) ==
    IF t = << >> THEN FALSE
    ELSE IF s = << >> THEN TRUE
    ELSE IF Head(s) # Head(t) THEN Head(s) < Head(t)
    ELSE TextLess(Tail(s), Tail(t))

(***************************************************************************)
(* Calendar: datetime.date arithmetic, strftime and strptime               *)
(***************************************************************************)

IsLeap(y) == y % 4 = 0 /\ (y % 100 # 0 \/ y % 400 = 0)

DaysInMonth(y, m) ==
    IF m = 2 THEN (IF IsLeap(y) THEN 29 ELSE 28)
    ELSE IF m \in {4, 6, 9, 11} THEN 30 ELSE 31

DaysBeforeYear(y) == (y - 1) * 365 + (y - 1) \div 4 - (y - 1) \div 100 + (y - 1) \div 400

RECURSIVE DaysBeforeMonth(_, _)
DaysBeforeMonth(y, m) ==
    IF m = 1 THEN 0 ELSE DaysBeforeMonth(y, m - 1) + DaysInMonth(y, m - 1)

\* date(y, m, d).toordinal()
Ymd2Ord(y, m, d) == DaysBeforeYear(y) + DaysBeforeMonth(y, m) + d

\* date.fromordinal(n) as <<year, month, day>>.
Ord2Ymd(n) ==
    LET n0   == n - 1
        n400 == n0 \div 146097
        r400 == n0 % 146097
        n100 == r400 \div 36524
        r100 == r400 % 36524
        n4   == r100 \div 1461
        r4   == r100 % 1461
        n1   == r4 \div 365
        r1   == r4 % 365
        year == n400 * 400 + 1 + n100 * 100 + n4 * 4 + n1
    IN  IF n1 = 4 \/ n100 = 4 THEN <<year - 1, 12, 31>>
        ELSE LET month == CHOOSE m \in 1..12 :
                              /\ DaysBeforeMonth(year, m) <= r1
                              /\ r1 < DaysBeforeMonth(year, m) + DaysInMonth(year, m)
             IN  <<year, month, r1 - DaysBeforeMonth(year, month) + 1>>

\* date.strftime("%Y%m%d")
Strftime(d) ==
    LET ymd == Ord2Ymd(d)
    IN  ZeroPad(ymd[1], 4) \o ZeroPad(ymd[2], 2) \o ZeroPad(ymd[3], 2)

\* Whether datetime.strptime(s, "%Y%m%d") accepts s.  Texts of eight ASCII
\* digits are the inputs considered; of those it rejects a month outside
\* 1..12 and a day outside the month.
StrptimeOk(s) ==
    /\ Len(s) = 8
    /\ \A k \in 1..8 : IsAsciiDigit(s[k])
    /\ LET y == DigitsValue(SubSeq(s, 1, 4))
           m == DigitsValue(SubSeq(s, 5, 6))
           d == DigitsValue(SubSeq(s, 7, 8))
       IN  y >= 1 /\ m \in 1..12 /\ d \in 1..DaysInMonth(y, m)

\* datetime.strptime(s, "%Y%m%d").date()
Strptime(s) ==
    Ymd2Ord(DigitsValue(SubSeq(s, 1, 4)), DigitsValue(SubSeq(s, 5, 6)),
            DigitsValue(SubSeq(s, 7, 8)))

\* datetime.timedelta(90), the default length of the window.
DefaultWindowDays == 90

(***************************************************************************)
(* daterange                                                               *)
(***************************************************************************)

\* (end_date - start_date).days
Days(start_date, end_date) == end_date - start_date

\* range(k): empty for k <= 0.
Range(k) == IF k <= 0 THEN << >> ELSE [j \in 1..k |-> j - 1]

\* A daterange that also yields end_date.
daterangeInclusive(start_date, end_date) ==
    LET r == Range(Days(start_date, end_date) + 1)
    IN  [j \in 1..Len(r) |-> start_date + r[j]]

\* The dates daterange(start_date, end_date) yields, in order.
daterange(start_date, end_date) ==
    LET r == Range(Days(start_date, end_date))
    IN  [j \in 1..Len(r) |-> start_date + r[j]]

(***************************************************************************)
(* validShowIdPattern and availableShows                                   *)
(***************************************************************************)

\* The class \d of a str pattern: the Unicode decimal digits.  The ASCII
\* digits and the Arabic-Indic block stand for the category.
MatchesDigitClass(c) == IsAsciiDigit(c) \/ c \in 1632..1641

\* re.match(validShowIdPattern, showId) for r'^\d{4}$': four \d from the
\* start, then `$`, which matches at the end of the text and also just
\* before a newline that ends the text.
MatchValidShowId(showId) ==
    /\ Len(showId) >= 4
    /\ \A k \in 1..4 : MatchesDigitClass(showId[k])
    /\ \/ Len(showId) = 4
       \/ Len(showId) = 5 /\ showId[5] = 10

\* shows[showName] = showId on a dict: a new key is added, an old one is
\* overwritten.
DictSet(shows, showName, showId) ==
    [k \in DOMAIN shows \cup {showName} |-> IF k = showName THEN showId ELSE shows[k]]

\* The loop of availableShows over the options in document order.  An
\* option without a value attribute raises KeyError at option['value'].
RECURSIVE ScanOptions(_, _)
ScanOptions(options, shows) ==
    IF options = << >> THEN [error |-> "", shows |-> shows]
    ELSE LET option == Head(options)
         IN  IF option.value = PyNone
             THEN [error |-> "KeyError", shows |-> shows]
             ELSE IF MatchValidShowId(option.value)
             THEN ScanOptions(Tail(options), DictSet(shows, option.text, option.value))
             ELSE ScanOptions(Tail(options), shows)

\* availableShows() on the listing page it fetched.  Without the select
\* element soup.find returns None and selectList.find_all raises.
availableShows(page) ==
    IF ~page.select THEN [error |-> "AttributeError", shows |-> << >>]
    ELSE ScanOptions(page.options, << >>)

(***************************************************************************)
(* requestHtml and ShowDatePage                                            *)
(***************************************************************************)

\* A requestHtml that calls r.raise_for_status() before returning r.text.
requestHtmlRaiseForStatus(response) ==
    IF ~response.arrived THEN [error |-> "ConnectionError", text |-> response.body]
    ELSE IF response.status \notin 200..399 THEN [error |-> "HTTPError", text |-> response.body]
    ELSE [error |-> "", text |-> response.body]

\* requestHtml(url) given what the transport answers: requests.get raises
\* when no response arrives, otherwise r.text is returned whatever the
\* status.
requestHtml(response) ==
    IF response.arrived THEN [error |-> "", text |-> response.body]
    ELSE [error |-> "ConnectionError", text |-> response.body]

\* The fields ShowDatePage.html formats into complete_url.
CompleteUrl(showId, pageDate, ticketQuantity) ==
    [showId |-> showId, segment |-> 134, ticketQuantity |-> ticketQuantity,
     bookingDate |-> Strftime(pageDate), type |-> <<65>>]

\* tag.text: every text of the cell, concatenated.
CellText(cell) == Concat([j \in 1..Len(cell) |-> cell[j].text])

\* cell.div, cell.span: the first child element with that tag, as a
\* sequence of zero or one node.
FirstTag(cell, tag) ==
    LET hits == {j \in 1..Len(cell) : cell[j].tag = tag}
    IN  IF hits = {} THEN << >>
        ELSE << cell[CHOOSE j \in hits : \A h \in hits : j <= h] >>

\* cell.find(text=True, recursive=False): the first direct text child.
DirectText(cell) ==
    LET t == FirstTag(cell, "text")
    IN  IF t = << >> THEN PyNone ELSE t[1].text

\* The dictionary built from one row, or the exception raised on the way:
\* the entries are evaluated in order, so cols[k] of a missing cell raises
\* IndexError and .text of a missing div or span raises AttributeError,
\* whichever comes first.
RowTicket(cols, showId, pageDate) ==
    IF Len(cols) < 2 THEN [error |-> "IndexError", ticket |-> << >>]
    ELSE IF FirstTag(cols[2], "div") = << >> THEN [error |-> "AttributeError", ticket |-> << >>]
    ELSE IF Len(cols) < 3 THEN [error |-> "IndexError", ticket |-> << >>]
    ELSE IF FirstTag(cols[3], "span") = << >> THEN [error |-> "AttributeError", ticket |-> << >>]
    ELSE IF Len(cols) < 4 THEN [error |-> "IndexError", ticket |-> << >>]
    ELSE [error |-> "",
          ticket |-> [time   |-> CellText(cols[1]),
                      area   |-> FirstTag(cols[2], "div")[1].text,
                      seats  |-> FirstTag(cols[3], "span")[1].text,
                      price  |-> DirectText(cols[4]),
                      showId |-> showId,
                      date   |-> Strftime(pageDate)]]

\* The loop over table.tbody.find_all("tr"), appending one ticket per row.
RECURSIVE ScanRows(_, _, _, _)
ScanRows(rows, showId, pageDate, tickets) ==
    IF rows = << >> THEN [error |-> "", tickets |-> tickets]
    ELSE LET r == RowTicket(Head(rows), showId, pageDate)
         IN  IF r.error # "" THEN [error |-> r.error, tickets |-> << >>]
             ELSE ScanRows(Tail(rows), showId, pageDate, Append(tickets, r.ticket))

\* A parser that reaches for table.tbody without testing `if table`.
ShowDatePageTicketsUnguarded(showId, pageDate, html) ==
    IF ~html.table \/ ~html.tbody THEN [error |-> "AttributeError", tickets |-> << >>]
    ELSE ScanRows(html.rows, showId, pageDate, << >>)

\* ShowDatePage.tickets on the markup html() returned.
ShowDatePageTickets(showId, pageDate, html) ==
    IF ~html.table THEN [error |-> "", tickets |-> << >>]
    ELSE IF ~html.tbody THEN [error |-> "AttributeError", tickets |-> << >>]
    ELSE ScanRows(html.rows, showId, pageDate, << >>)

(***************************************************************************)
(* Bot                                                                     *)
(***************************************************************************)

\* Bot.__init__: the window of the search.
BotDateFrom(dateFrom, today) == IF dateFrom.given THEN dateFrom.date ELSE today

\* A default end 90 days after the first date of the season, not after the
\* start of the window.
BotDateToFixedAnchor(dateTo, resolvedFrom) ==
    IF dateTo.given THEN dateTo.date ELSE Ymd2Ord(2017, 6, 29) + DefaultWindowDays

BotDateTo(dateTo, resolvedFrom) ==
    IF dateTo.given THEN dateTo.date ELSE resolvedFrom + DefaultWindowDays

\* A list that grows at the front.
ExtendFront(tickets, pageTickets) == pageTickets \o tickets

\* tickets.extend(pageTickets)
Extend(tickets, pageTickets) == tickets \o pageTickets

(***************************************************************************)
(* The export of search                                                    *)
(***************************************************************************)

\* The text of each field name.
KeyText ==
    [a |-> <<97>>, b |-> <<98>>, c |-> <<99>>,
     time |-> <<116,105,109,101>>, area |-> <<97,114,101,97>>,
     seats |-> <<115,101,97,116,115>>, price |-> <<112,114,105,99,101>>,
     showId |-> <<115,104,111,119,73,100>>, date |-> <<100,97,116,101>>]

\* set(k for d in ticketRows for k in d)
KeyUnion(ticketRows) == UNION {DOMAIN ticketRows[j] : j \in 1..Len(ticketRows)}

\* sorted(list(keys))
RECURSIVE Sorted(_)
Sorted(keys) ==
    IF keys = {} THEN << >>
    ELSE LET least == CHOOSE k \in keys :
                          \A o \in keys \ {k} : TextLess(KeyText[k], KeyText[o])
         IN  <<least>> \o Sorted(keys \ {least})

\* Field names taken from the first row alone.
FieldnamesOfFirstRow(ticketRows) ==
    IF ticketRows = << >> THEN << >> ELSE Sorted(DOMAIN ticketRows[1])

Fieldnames(ticketRows) == Sorted(KeyUnion(ticketRows))

\* A field under csv.QUOTE_ALL: None is written as the empty text, a quote
\* inside the field is doubled, and the field is wrapped in quotes.
RECURSIVE DoubleQuotes(_)
DoubleQuotes(s) ==
    IF s = << >> THEN << >>
    ELSE (IF Head(s) = 34 THEN <<34, 34>> ELSE <<Head(s)>>) \o DoubleQuotes(Tail(s))

QuoteField(v) == <<34>> \o DoubleQuotes(IF v = PyNone THEN << >> ELSE v) \o <<34>>

\* DictWriter.writeheader: the field names as one row.
HeaderRow(fieldnames) == [j \in 1..Len(fieldnames) |-> QuoteField(KeyText[fieldnames[j]])]

\* DictWriter.writerow: row.get(key, '') for each field name, in order.
DictRow(fieldnames, row) ==
    [j \in 1..Len(fieldnames) |->
        QuoteField(IF fieldnames[j] \in DOMAIN row THEN row[fieldnames[j]] ELSE << >>)]

(***************************************************************************)
(* Inputs: the command line, the clock, the site's pages                   *)
(***************************************************************************)

\* Bounds of the model.
MaxOptions == 2
MaxWindow == 3
MaxRecords == 2
BusyDays == 1

\* 2017-06-29, the first date of the range named at the top of bot.py.
FirstDay == Ymd2Ord(2017, 6, 29)

Hamlet == <<72,97,109,108,101,116>>
Macbeth == <<77,97,99,98,101,116,104>>

\* Options of the select element: well-shaped ids (two of them under the
\* same name), ids of a wrong shape, an id followed by a newline, and an
\* option without a value attribute.
ShowOptions ==
    { [text |-> Hamlet,  value |-> <<54,49,54,56>>],
      [text |-> Hamlet,  value |-> <<54,49,54,57>>],
      [text |-> Hamlet,  value |-> <<54,49,54,56,10>>],
      [text |-> Macbeth, value |-> <<54,49,97,56>>],
      [text |-> Macbeth, value |-> <<54,49,54>>],
      [text |-> Macbeth, value |-> <<54,49,54,56,57>>],
      [text |-> Macbeth, value |-> <<32,54,49,54,56>>],
      [text |-> Macbeth, value |-> PyNone] }

OptionLists == UNION {[1..k -> ShowOptions] : k \in 0..MaxOptions}

\* What the site answers for the listing page.
ListingPages ==
    {[select |-> TRUE, options |-> o] : o \in OptionLists}
        \cup {[select |-> FALSE, options |-> << >>]}

Text(t) == [tag |-> "text", text |-> t]
Element(tag, t) == [tag |-> tag, text |-> t]

\* 19:30 | Stalls | A12 | 45 pounds
RowEvening ==
    << <<Text(<<49,57,58,51,48>>)>>,
       <<Element("div", <<83,116,97,108,108,115>>)>>,
       <<Element("span", <<65,49,50>>)>>,
       <<Text(<<163,52,53>>)>> >>

\* 14:30 | Circle | B7 | 30 pounds, with markup around the time, the area,
\* the seats and the price.
RowMatinee ==
    << <<Text(<<49,52>>), Element("b", <<58,51,48>>)>>,
       <<Text(<<32>>), Element("div", <<67,105,114,99,108,101>>)>>,
       <<Element("span", <<66,55>>), Element("span", <<34>>)>>,
       <<Element("span", <<119,97,115,32>>), Text(<<163,51,48>>)>> >>

\* A row of three cells.
RowShort == SubSeq(RowEvening, 1, 3)

\* A row whose price cell holds no text of its own.
RowNoPrice == [RowEvening EXCEPT ![4] = <<Element("span", <<163,52,53>>)>>]

NoTablePage == [table |-> FALSE, tbody |-> FALSE, rows |-> << >>]
TablePage(rows) == [table |-> TRUE, tbody |-> TRUE, rows |-> rows]

\* Markup of an availability page.
Pages ==
    { NoTablePage,
      [table |-> TRUE, tbody |-> FALSE, rows |-> << >>],
      TablePage(<<RowEvening>>),
      TablePage(<<RowMatinee, RowNoPrice>>),
      TablePage(<<RowEvening, RowShort>>) }

\* What the transport does with one GET: no response (an exception of
\* requests.get), or a response with a status and a body.
NoResponse == [arrived |-> FALSE, status |-> 0, body |-> NoTablePage]

Responses ==
    {NoResponse}
        \cup {[arrived |-> TRUE, status |-> 200, body |-> p] : p \in Pages}
        \cup {[arrived |-> TRUE, status |-> st, body |-> p] :
                 st \in {404}, p \in {NoTablePage, TablePage(<<RowEvening>>)}}

\* The site for a date with nothing on sale: no table, or no answer.
QuietResponses == {NoResponse, [arrived |-> TRUE, status |-> 200, body |-> NoTablePage]}

\* -f and -t: absent, or a YYYYMMDD text; one of them is no calendar date.
FromDates == {PyNone, Strftime(FirstDay), Strftime(FirstDay + 1), <<50,48,49,55,48,54,51,49>>}
ToDates == {Strftime(FirstDay + k) : k \in 0..MaxWindow}

\* datetime.date.today()
Todays == {FirstDay, FirstDay + 2}

\* The rows the export is given when it is looked at on its own: records
\* with different sets of keys.
ExportRecords ==
    UNION {[ks -> {<<49>>}] : ks \in (SUBSET {"a", "b", "c"}) \ {{}}}
        \cup {[b |-> <<50,34>>, c |-> PyNone], [date |-> <<50>>, b |-> <<51>>, a |-> <<52>>]}
ExportInputs == UNION {[1..k -> ExportRecords] : k \in 0..MaxRecords}

OldLines == << <<QuoteField(<<111,108,100>>)>> >>

(***************************************************************************)
(* State                                                                   *)
(***************************************************************************)

VARIABLES
    pc,          \* where search() is
    args,        \* the parsed command line
    dateFrom,    \* search's local dateFrom: [given, date]
    dateTo,      \* search's local dateTo: [given, date]
    listing,     \* the listing page availableShows fetched
    shows,       \* the dictionary availableShows returned
    bot,         \* ltlBot: showId, ticketQuantity, dateFrom, dateTo
    n,           \* enumerate's i: how many dates the loop is done with
    html,        \* the markup of the date being processed, if fetched
    tickets,     \* Bot.tickets's list; then search's ticketRows
    fetched,     \* every availability request sent, with its answer
    fieldnames,  \* search's fieldnames
    outfile,     \* the file at args.outfile
    error        \* the exception that ended the run, if any

vars == <<pc, args, dateFrom, dateTo, listing, shows, bot, n, html, tickets,
          fetched, fieldnames, outfile, error>>

NotGiven == [given |-> FALSE, date |-> 0]
NoBot == [showId |-> << >>, ticketQuantity |-> 0, dateFrom |-> 0, dateTo |-> 0]
NoListing == [select |-> FALSE, options |-> << >>]

InitWith(froms, tos) ==
    /\ pc = "args"
    /\ args \in [show : {Hamlet, Macbeth}, number_tickets : {1, 2},
                 from_date : froms, to_date : tos]
    /\ dateFrom = NotGiven
    /\ dateTo = NotGiven
    /\ listing = NoListing
    /\ shows = << >>
    /\ bot = NoBot
    /\ n = 0
    /\ html = << >>
    /\ tickets = << >>
    /\ fetched = << >>
    /\ fieldnames = << >>
    /\ outfile \in {[exists |-> FALSE, opened |-> FALSE, lines |-> << >>],
                    [exists |-> TRUE, opened |-> FALSE, lines |-> OldLines]}
    /\ error = ""

Init == InitWith(FromDates, ToDates)

\* An exception propagates out of search: nothing else of it runs.
Raise(e) ==
    /\ pc' = "aborted"
    /\ error' = e

(***************************************************************************)
(* search                                                                  *)
(***************************************************************************)

\* One element of the list comprehension of line 145.
ParseDate(date_string) ==
    IF Falsy(date_string) THEN NotGiven
    ELSE [given |-> TRUE, date |-> Strptime(date_string)]

\* dateFrom, dateTo = [strptime(...) if date_string else date_string ...]
InterpretInput ==
    /\ pc = "args"
    /\ IF \E s \in {args.from_date, args.to_date} : ~Falsy(s) /\ ~StrptimeOk(s)
       THEN Raise("ValueError") /\ UNCHANGED <<dateFrom, dateTo>>
       ELSE /\ dateFrom' = ParseDate(args.from_date)
            /\ dateTo' = ParseDate(args.to_date)
            /\ pc' = "shows"
            /\ UNCHANGED error
    /\ UNCHANGED <<args, listing, shows, bot, n, html, tickets, fetched,
                   fieldnames, outfile>>

\* The call availableShows() of line 146.
CallAvailableShows ==
    /\ pc = "shows"
    /\ \E arrived \in BOOLEAN, page \in ListingPages :
         LET got == requestHtml([arrived |-> arrived, status |-> 200, body |-> page])
             res == availableShows(got.text)
         IN  IF got.error # "" THEN Raise(got.error) /\ UNCHANGED <<listing, shows>>
             ELSE IF res.error # ""
             THEN Raise(res.error) /\ listing' = page /\ UNCHANGED shows
             ELSE /\ listing' = page
                  /\ shows' = res.shows
                  /\ pc' = "lookup"
                  /\ UNCHANGED error
    /\ UNCHANGED <<args, dateFrom, dateTo, bot, n, html, tickets, fetched,
                   fieldnames, outfile>>

\* A lookup with shows.get(args.show, args.show): an unknown name is taken
\* for an id.
LookupAndBuildBotDefaulting ==
    /\ pc = "lookup"
    /\ \E today \in Todays :
         LET resolved == BotDateFrom(dateFrom, today)
         IN  /\ bot' = [showId |-> IF args.show \in DOMAIN shows
                                      THEN shows[args.show] ELSE args.show,
                        ticketQuantity |-> args.number_tickets,
                        dateFrom |-> resolved,
                        dateTo |-> BotDateTo(dateTo, resolved)]
             /\ listing' = NoListing
             /\ shows' = << >>
             /\ pc' = "fetch"
    /\ UNCHANGED <<args, dateFrom, dateTo, n, html, tickets, fetched, fieldnames,
                   outfile, error>>

\* The subscript [args.show] of line 146 and the construction of the Bot;
\* the dictionary is dropped once the id is taken from it.
LookupAndBuildBot ==
    /\ pc = "lookup"
    /\ IF args.show \notin DOMAIN shows
       THEN Raise("KeyError") /\ UNCHANGED <<bot, listing, shows>>
       ELSE \E today \in Todays :
              LET resolved == BotDateFrom(dateFrom, today)
              IN  /\ bot' = [showId |-> shows[args.show],
                             ticketQuantity |-> args.number_tickets,
                             dateFrom |-> resolved,
                             dateTo |-> BotDateTo(dateTo, resolved)]
                  /\ listing' = NoListing
                  /\ shows' = << >>
                  /\ pc' = "fetch"
                  /\ UNCHANGED error
    /\ UNCHANGED <<args, dateFrom, dateTo, n, html, tickets, fetched, fieldnames,
                   outfile>>

\* The dates Bot.tickets iterates over.
Window == daterange(bot.dateFrom, bot.dateTo)

\* What the site may answer for a date: anything while the date is within
\* `busy` days of FirstDay, and nothing on sale after that.
Answers(busy, date) == IF date < FirstDay + busy THEN Responses ELSE QuietResponses

\* The generator yields its next date and page.html() requests the page.
FetchPage(busy) ==
    /\ pc = "fetch"
    /\ n < Len(Window)
    /\ \E response \in Answers(busy, Window[n + 1]) :
         LET got == requestHtml(response)
         IN  /\ fetched' = Append(fetched,
                    [url |-> CompleteUrl(bot.showId, Window[n + 1], bot.ticketQuantity),
                     date |-> Window[n + 1],
                     response |-> response])
             /\ IF got.error # "" THEN Raise(got.error) /\ UNCHANGED html
                ELSE html' = <<got.text>> /\ pc' = "parse" /\ UNCHANGED error
    /\ UNCHANGED <<args, dateFrom, dateTo, listing, shows, bot, n, tickets,
                   fieldnames, outfile>>

\* A loop that asks again for a date whose page gave no tickets.
ParsePageRetrying ==
    /\ pc = "parse"
    /\ LET res == ShowDatePageTickets(bot.showId, Window[n + 1], html[1])
       IN  IF res.error # "" THEN Raise(res.error) /\ UNCHANGED <<tickets, n, html>>
           ELSE /\ tickets' = Extend(tickets, res.tickets)
                /\ n' = IF res.tickets = << >> THEN n ELSE n + 1
                /\ html' = << >>
                /\ pc' = "fetch"
                /\ UNCHANGED error
    /\ UNCHANGED <<args, dateFrom, dateTo, listing, shows, bot, fetched,
                   fieldnames, outfile>>

\* A loop that skips a page it cannot parse.
ParsePageSkipping ==
    /\ pc = "parse"
    /\ LET res == ShowDatePageTickets(bot.showId, Window[n + 1], html[1])
       IN  /\ tickets' = Extend(tickets, res.tickets)
           /\ n' = n + 1
           /\ html' = << >>
           /\ pc' = "fetch"
           /\ UNCHANGED error
    /\ UNCHANGED <<args, dateFrom, dateTo, listing, shows, bot, fetched,
                   fieldnames, outfile>>

\* The rest of page.tickets() and tickets.extend(pageTickets).
ParsePage ==
    /\ pc = "parse"
    /\ LET res == ShowDatePageTickets(bot.showId, Window[n + 1], html[1])
       IN  IF res.error # "" THEN Raise(res.error) /\ UNCHANGED <<tickets, n, html>>
           ELSE /\ tickets' = Extend(tickets, res.tickets)
                /\ n' = n + 1
                /\ html' = << >>
                /\ pc' = "fetch"
                /\ UNCHANGED error
    /\ UNCHANGED <<args, dateFrom, dateTo, listing, shows, bot, fetched,
                   fieldnames, outfile>>

\* The generator is exhausted: Bot.tickets returns.
ReturnTickets ==
    /\ pc = "fetch"
    /\ n >= Len(Window)
    /\ pc' = "export"
    /\ UNCHANGED <<args, dateFrom, dateTo, listing, shows, bot, n, html, tickets,
                   fetched, fieldnames, outfile, error>>

\* fieldnames = sorted(list(set(...)))
ComputeFieldnames ==
    /\ pc = "export"
    /\ fieldnames' = Fieldnames(tickets)
    /\ pc' = "open"
    /\ UNCHANGED <<args, dateFrom, dateTo, listing, shows, bot, n, html, tickets,
                   fetched, outfile, error>>

\* open(outfile, 'w'): the file is created or truncated, or open raises.
OpenOutfile ==
    /\ pc = "open"
    /\ \/ /\ outfile' = [exists |-> TRUE, opened |-> TRUE, lines |-> << >>]
          /\ pc' = "header"
          /\ UNCHANGED error
       \/ Raise("IOError") /\ UNCHANGED outfile
    /\ UNCHANGED <<args, dateFrom, dateTo, listing, shows, bot, n, html, tickets,
                   fetched, fieldnames>>

\* writer.writeheader()
WriteHeader ==
    /\ pc = "header"
    /\ outfile' = [outfile EXCEPT !.lines = Append(@, HeaderRow(fieldnames))]
    /\ pc' = "rows"
    /\ UNCHANGED <<args, dateFrom, dateTo, listing, shows, bot, n, html, tickets,
                   fetched, fieldnames, error>>

\* How many of ticketRows the loop of line 162 has written.
RowsWritten == Len(outfile.lines) - 1

\* writer.writerow(row) for the next row; DictWriter raises on a row with a
\* key that is no field name.
WriteRow ==
    /\ pc = "rows"
    /\ RowsWritten < Len(tickets)
    /\ LET row == tickets[RowsWritten + 1]
       IN  IF \E k \in DOMAIN row : \A c \in 1..Len(fieldnames) : fieldnames[c] # k
           THEN Raise("ValueError") /\ UNCHANGED outfile
           ELSE /\ outfile' = [outfile EXCEPT !.lines = Append(@, DictRow(fieldnames, row))]
                /\ UNCHANGED <<pc, error>>
    /\ UNCHANGED <<args, dateFrom, dateTo, listing, shows, bot, n, html,
                   tickets, fetched, fieldnames>>

\* The with block ends and search returns.
CloseOutfile ==
    /\ pc = "rows"
    /\ RowsWritten = Len(tickets)
    /\ pc' = "done"
    /\ UNCHANGED <<args, dateFrom, dateTo, listing, shows, bot, n, html, tickets,
                   fetched, fieldnames, outfile, error>>

Export == ComputeFieldnames \/ OpenOutfile \/ WriteHeader \/ WriteRow \/ CloseOutfile

Next ==
    \/ InterpretInput
    \/ CallAvailableShows
    \/ LookupAndBuildBot
    \/ FetchPage(MaxWindow)
    \/ ParsePage
    \/ ReturnTickets
    \/ Export

Spec == Init /\ [][Next]_vars

\* The search with and without -t, on a site with little on sale: without
\* -t the window ends 90 days after its start.
InitDefault == InitWith(FromDates, ToDates \cup {PyNone})

NextDefault ==
    \/ InterpretInput
    \/ CallAvailableShows
    \/ LookupAndBuildBot
    \/ FetchPage(BusyDays)
    \/ ParsePage
    \/ ReturnTickets
    \/ Export

SpecDefault == InitDefault /\ [][NextDefault]_vars

\* The export on its own, from line 153 on, given any rows.
InitExport ==
    /\ pc = "export"
    /\ args \in [show : {Hamlet}, number_tickets : {2},
                 from_date : {PyNone}, to_date : {PyNone}]
    /\ dateFrom = NotGiven
    /\ dateTo = NotGiven
    /\ listing = NoListing
    /\ shows = << >>
    /\ bot = NoBot
    /\ n = 0
    /\ html = << >>
    /\ tickets \in ExportInputs
    /\ fetched = << >>
    /\ fieldnames = << >>
    /\ outfile \in {[exists |-> FALSE, opened |-> FALSE, lines |-> << >>],
                    [exists |-> TRUE, opened |-> FALSE, lines |-> OldLines]}
    /\ error = ""

NextExport == Export

SpecExport == InitExport /\ [][NextExport]_vars

(***************************************************************************)
(* Properties                                                              *)
(***************************************************************************)

\* Bot.tickets() has returned to search.
TicketsReturned ==
    \/ pc \in {"export", "open", "header", "rows", "done"}
    \/ pc = "aborted" /\ error = "IOError"

\* The Bot exists.
BotBuilt == bot # NoBot

\* The file at args.outfile is as it was before the run.
OutfileUntouched ==
    /\ ~outfile.opened
    /\ outfile.lines = IF outfile.exists THEN OldLines ELSE << >>

\* C1: daterange(start, end) is empty when end <= start; when end > start it
\* yields exactly (end - start).days dates, the first is start, each next one
\* is one day after the previous, and the last is before end.
C1_DateRange ==
    BotBuilt =>
        LET start == bot.dateFrom
            end   == bot.dateTo
            r     == daterange(start, end)
        IN  /\ end <= start => r = << >>
            /\ end > start =>
                 /\ Len(r) = end - start
                 /\ r[1] = start
                 /\ \A j \in 1..(Len(r) - 1) : r[j + 1] = r[j] + 1
                 /\ r[Len(r)] < end

\* A window of several dates has been iterated to its end; another run had
\* an end before its start.
C1_Witness ==
    /\ pc = "done"
    /\ bot.dateTo - bot.dateFrom >= 2
    /\ n = bot.dateTo - bot.dateFrom

\* C2: the pages requested are those of the first dates of the window, one
\* request per date in ascending order, each for the run's show, quantity
\* and that date; a request is sent only when every earlier page has been
\* parsed; and once Bot.tickets() has returned, every date of the window
\* has been requested exactly once (none when the window is empty).
C2_OneFetchPerDate ==
    BotBuilt =>
        /\ \A j \in 1..Len(fetched) :
             /\ fetched[j].date = bot.dateFrom + j - 1
             /\ fetched[j].date < bot.dateTo
             /\ fetched[j].url.bookingDate = Strftime(bot.dateFrom + j - 1)
             /\ fetched[j].url.showId = bot.showId
             /\ fetched[j].url.ticketQuantity = args.number_tickets
        /\ Len(fetched) \in {n, n + 1}
        /\ pc = "fetch" => Len(fetched) = n /\ html = << >>
        /\ pc = "parse" => Len(fetched) = n + 1 /\ html = <<fetched[n + 1].response.body>>
        /\ TicketsReturned =>
             Len(fetched) = IF bot.dateTo > bot.dateFrom THEN bot.dateTo - bot.dateFrom ELSE 0

\* A run over three dates has ended with three requests.
C2_Witness ==
    /\ pc = "done"
    /\ Len(fetched) = 3
    /\ bot.dateTo = bot.dateFrom + 3

\* The records of `tickets` that carry the date d.
RECURSIVE TicketsDated(_, _)
TicketsDated(ts, d) ==
    IF ts = << >> THEN << >>
    ELSE (IF Head(ts).date = d THEN <<Head(ts)>> ELSE << >>) \o TicketsDated(Tail(ts), d)

\* The answer to request j had no seats table.
NoTableAt(j) == fetched[j].response.arrived /\ ~fetched[j].response.body.table

\* C3: a page without the seats table contributes no record and raises
\* nothing: the run is not aborted at that date (it can only fail later,
\* opening the output file), every date of the window is still requested, and each other date whose page was parsed still has
\* one record per row of its table in the result.
C3_NoTableIsEmpty ==
    BotBuilt =>
        \A j \in 1..Len(fetched) :
            NoTableAt(j) =>
                /\ TicketsDated(tickets, Strftime(fetched[j].date)) = << >>
                /\ j = Len(fetched) /\ pc = "aborted" => error = "IOError"
                /\ TicketsReturned => Len(fetched) = Len(Window)
                /\ \A i \in 1..n :
                     fetched[i].response.body.table =>
                        Len(TicketsDated(tickets, Strftime(fetched[i].date)))
                            = Len(fetched[i].response.body.rows)

\* A run of three dates has ended: the second page had no table, the first
\* and the third had rows, whose records are in the result.
C3_Witness ==
    /\ pc = "done"
    /\ Len(fetched) = 3
    /\ NoTableAt(2)
    /\ fetched[1].response.body.rows # << >>
    /\ fetched[3].response.body.rows # << >>
    /\ TicketsDated(tickets, Strftime(fetched[1].date)) # << >>
    /\ TicketsDated(tickets, Strftime(fetched[3].date)) # << >>

\* The exception request j ends with: of the transport, or of the parse of
\* the page it returned ("" when there is none).
FailureAt(j) ==
    IF ~fetched[j].response.arrived THEN "ConnectionError"
    ELSE LET body == fetched[j].response.body
         IN  IF body.table /\ ~body.tbody THEN "AttributeError"
             ELSE IF body.table /\ \E k \in 1..Len(body.rows) : Len(body.rows[k]) < 4
             THEN "IndexError"
             ELSE ""

\* C4: when the fetch of a date raises, or its page has a row of fewer than
\* four cells (or a table without a body), the run aborts at that date with
\* that exception: the date is the last one requested, and the output file
\* is neither created nor written.
C4_AbortOnFailure ==
    \A j \in 1..Len(fetched) :
        FailureAt(j) # "" =>
            /\ j = Len(fetched)
            /\ \/ pc = "parse" /\ fetched[j].response.arrived
               \/ pc = "aborted" /\ error = FailureAt(j)
            /\ OutfileUntouched

\* A run has aborted on a short row at its second date, with records of its
\* first date collected and a later date never requested.
C4_Witness ==
    /\ pc = "aborted"
    /\ error = "IndexError"
    /\ Len(fetched) = 2
    /\ Len(Window) = 3
    /\ tickets # << >>
    /\ outfile.exists

\* The answer to request j carried a status outside 2xx.
NonSuccessAt(j) ==
    fetched[j].response.arrived /\ fetched[j].response.status \notin 200..299

\* C5 as stated: no export is produced from a run in which some date's
\* fetch was answered with a non-2xx status.
C5_NonSuccessAborts ==
    (\E j \in 1..Len(fetched) : NonSuccessAt(j)) => ~outfile.opened

\* C5 as amended: an answer with a non-2xx status is no error.  Its body is
\* parsed like any other page (no record without the seats table, one
\* record per row with it), and the run can only abort at that date on what
\* the parse of that body raises.
C5_StatusIgnored ==
    \A j \in 1..Len(fetched) :
        NonSuccessAt(j) =>
            /\ j = Len(fetched) /\ pc = "aborted" =>
                  \/ error = "IOError"
                  \/ error = FailureAt(j) /\ error # ""
            /\ j <= n =>
                  Len(TicketsDated(tickets, Strftime(fetched[j].date)))
                      = IF fetched[j].response.body.table
                        THEN Len(fetched[j].response.body.rows) ELSE 0

\* A run has ended with its file written although one date was answered
\* with a non-2xx status; the body of that answer gave a record.
C5_Witness ==
    /\ pc = "done"
    /\ \E j \in 1..Len(fetched) :
         /\ NonSuccessAt(j)
         /\ TicketsDated(tickets, Strftime(fetched[j].date)) # << >>
    /\ Len(outfile.lines) > 1

\* The YYYYMMDD text of the dates of the season's first week.
DateText(d) ==
    CASE d = Ymd2Ord(2017, 6, 29)     -> <<50,48,49,55,48,54,50,57>>
      [] d = Ymd2Ord(2017, 6, 29) + 1 -> <<50,48,49,55,48,54,51,48>>
      [] d = Ymd2Ord(2017, 6, 29) + 2 -> <<50,48,49,55,48,55,48,49>>
      [] d = Ymd2Ord(2017, 6, 29) + 3 -> <<50,48,49,55,48,55,48,50>>
      [] d = Ymd2Ord(2017, 6, 29) + 4 -> <<50,48,49,55,48,55,48,51>>
      [] d = Ymd2Ord(2017, 6, 29) + 5 -> <<50,48,49,55,48,55,48,52>>

\* What a reader of the markup takes from the two well-formed rows.
FieldsOf(row) ==
    CASE row = RowEvening ->
           [time |-> <<49,57,58,51,48>>, area |-> <<83,116,97,108,108,115>>,
            seats |-> <<65,49,50>>, price |-> <<163,52,53>>]
      [] row = RowMatinee ->
           [time |-> <<49,52,58,51,48>>, area |-> <<67,105,114,99,108,101>>,
            seats |-> <<66,55>>, price |-> <<163,51,48>>]

\* The number of rows of the table of page j (none without a table).
RowCount(j) ==
    IF fetched[j].response.body.table THEN Len(fetched[j].response.body.rows) ELSE 0

\* The number of rows of the pages before page j.
RECURSIVE RowsBefore(_)
RowsBefore(j) == IF j <= 1 THEN 0 ELSE RowsBefore(j - 1) + RowCount(j - 1)

\* C6: the result is the concatenation over the dates of the window, in
\* ascending order, of one record per row of the date's table in document
\* order; each record has the six fields, its date is the YYYYMMDD text of
\* the date whose page produced it, its showId is the run's, and its time,
\* area, seats and price are those of its row.
C6_Concatenation ==
    BotBuilt =>
        /\ Len(tickets) = RowsBefore(n + 1)
        /\ TicketsReturned => n = Len(Window)
        /\ \A j \in 1..n : \A k \in 1..RowCount(j) :
             LET t   == tickets[RowsBefore(j) + k]
                 row == fetched[j].response.body.rows[k]
             IN  /\ DOMAIN t = {"time", "area", "seats", "price", "showId", "date"}
                 /\ t.date = DateText(bot.dateFrom + j - 1)
                 /\ t.showId = bot.showId
                 /\ row \in {RowEvening, RowMatinee} =>
                       /\ t.time = FieldsOf(row).time
                       /\ t.area = FieldsOf(row).area
                       /\ t.seats = FieldsOf(row).seats
                       /\ t.price = FieldsOf(row).price

\* A run has ended with records of two dates, the first date's page holding
\* one row and a later one two.
C6_Witness ==
    /\ pc = "done"
    /\ Len(fetched) >= 2
    /\ RowCount(1) = 1
    /\ RowCount(Len(fetched)) = 2
    /\ tickets[1].date # tickets[Len(tickets)].date
    /\ tickets[1].time = <<49,57,58,51,48>>

\* A value of four ASCII digits and nothing else.
FourAsciiDigits(v) == Len(v) = 4 /\ \A k \in 1..4 : v[k] \in 48..57

\* C8 as stated: the dictionary availableShows returns holds the name of an
\* option if and only if the option's value is exactly four ASCII digits,
\* and under a name the id of the last such option in document order.
C8_ExactlyFourDigits ==
    pc = "lookup" =>
        LET opts     == listing.options
            accepted == {j \in 1..Len(opts) : FourAsciiDigits(opts[j].value)}
        IN  /\ DOMAIN shows = {opts[j].text : j \in accepted}
            /\ \A j \in accepted :
                 (\A i \in accepted : opts[i].text = opts[j].text => i <= j)
                    => shows[opts[j].text] = opts[j].value

\* C9: when the name asked for is not in the dictionary, the next step of
\* the search is the KeyError: no availability page has been or is requested
\* and the output file is left as it was; and an aborted search takes no
\* further step.
C9_UnknownShow ==
    [][ /\ pc # "aborted"
        /\ (pc = "lookup" /\ args.show \notin DOMAIN shows) =>
              /\ pc' = "aborted"
              /\ error' = "KeyError"
              /\ fetched' = << >>
              /\ outfile' = outfile
              /\ OutfileUntouched ]_vars

\* A search has failed on a name missing from a listing that has shows,
\* with an older file in place.
C9_Witness ==
    /\ pc = "aborted"
    /\ error = "KeyError"
    /\ availableShows(listing).error = ""
    /\ DOMAIN shows # {}
    /\ args.show \notin DOMAIN shows
    /\ outfile.exists

Unquoted(f) == SubSeq(f, 2, Len(f) - 1)

\* C7: the header is the field names of all the rows, each once, in
\* ascending lexicographic order; it is the first line written and the only
\* header; after it comes one line per row in input order, holding for each
\* column the row's value, or the empty value when the row lacks the column.
C7_Export ==
    LET keys == {k \in DOMAIN KeyText : \E j \in 1..Len(tickets) : k \in DOMAIN tickets[j]}
        L    == outfile.lines
    IN  /\ pc \in {"export", "open"} => OutfileUntouched
        /\ pc = "header" => L = << >>
        /\ pc = "done" => Len(L) = Len(tickets) + 1
        /\ pc \in {"rows", "done"} =>
             /\ Len(L) >= 1
             /\ Len(L[1]) = Cardinality(keys)
             /\ {Unquoted(L[1][c]) : c \in 1..Len(L[1])} = {KeyText[k] : k \in keys}
             /\ \A c \in 1..(Len(L[1]) - 1) :
                  TextLess(Unquoted(L[1][c]), Unquoted(L[1][c + 1]))
             /\ \A r \in 2..Len(L) :
                  /\ Len(L[r]) = Len(L[1])
                  /\ \A c \in 1..Len(L[1]) :
                       LET k == CHOOSE k \in keys : KeyText[k] = Unquoted(L[1][c])
                       IN  L[r][c] = IF k \in DOMAIN tickets[r - 1]
                                     THEN QuoteField(tickets[r - 1][k])
                                     ELSE <<34, 34>>

\* Two rows with different keys have been written: the second lacks a
\* column of the first and has an empty value there.
C7_Witness ==
    /\ pc = "done"
    /\ Len(tickets) = 2
    /\ \E k \in DOMAIN tickets[1] : k \notin DOMAIN tickets[2]
    /\ \E c \in 1..Len(outfile.lines[3]) : outfile.lines[3][c] = <<34, 34>>
    /\ Len(outfile.lines[1]) = 3

====
